---- MODULE Spec2Model ----
(***************************************************************************)
(* Model of gitlab_branch_report.py: path resolution (get_all_projects),   *)
(* recursive project discovery (get_all_projects_of_group), per-project    *)
(* branch enrichment (get_details_of_all_branches_of_project and           *)
(* get_branch_details) and the assembly of report_data in main.            *)
(*                                                                         *)
(* The remote GitLab server is the environment: every remote call is one   *)
(* step whose response (or exception class) is chosen from a bounded set.  *)
(* Exceptions are the classes the source distinguishes in its except       *)
(* clauses: GitlabGetError, and any other GitlabError.                     *)
(***************************************************************************)
EXTENDS Integers, Sequences, FiniteSets, TLC

\* ---------------------------------------------------------------- bounds
NumGroups == 3
NumProjects == 2
NumBranches == 2
\* deepest recursion of get_all_projects_of_group the remote lets happen
MaxDepth == 3
\* longest subgroup listing the remote returns
MaxSubgroups == 2
\* most projects one discovery accumulates (over all live frames)
MaxFound == 2
\* most branches enriched in one run (over all projects)
MaxRecords == 2
\* latest wall-clock hour of a commit, and the non-zero UTC offset in hours
MaxLocal == 2
MaxOffset == 2
\* longest merge-request listing of one branch
MaxMRs == 2

Groups == 1..NumGroups
Projects == 1..NumProjects
BranchNames == 1..NumBranches
Locals == 1..MaxLocal
Offsets == {0, MaxOffset}
MRStates == {"opened", "closed", "merged"}
TargetBranches == {"main", "develop"}

Range(s) == {s[i] : i \in 1..Len(s)}

\* The listings of the remote: no entry twice, in ascending id order, at
\* most n entries.
Listings(S, n) == {s \in UNION {[1..k -> S] : k \in 0..n} :
                     \A i, j \in 1..Len(s) : i < j => s[i] < s[j]}

\* what the remote's list calls can answer
ProjectLists == Listings(Projects, NumProjects)
SubgroupLists == Listings(Groups, MaxSubgroups)
BranchLists == Listings(BranchNames, NumBranches)
Commits == [local : Locals, offset : Offsets]
MergeRequests == [state : MRStates, target_branch : TargetBranches]
MRLists == UNION {[1..k -> MergeRequests] : k \in 0..MaxMRs}

\* Python's None for the optional fields of get_branch_details
None == "None"

VARIABLES
  pc,              \* position of the single thread of control
  exit_status,     \* -1 while running, then the process's exit status
  message,         \* last error line printed: <<text, subject>>
  project_lookup,  \* outcome of gl.projects.get(path) in get_all_projects
  group_lookup,    \* outcome of gl.groups.get(path) in get_all_projects
  stack,           \* activations of get_all_projects_of_group, innermost
                   \* last: group, projects, subgroups, loop position; and,
                   \* as history, `owned` (the projects this activation or
                   \* one it called listed direct and not shared) and
                   \* `height` (how deep its calls went below it)
  direct_projects, \* direct_projects of the running activation
  shared_projects, \* shared_projects of the running activation (both are
                   \* read only by the loop that follows their listing)
  all_projects,    \* main: all_projects
  proj_idx,        \* main: position of `for project in all_projects`
  branches,        \* get_details_of_all_branches_of_project: branches
  branch_idx,      \* position of `for branch in branches`
  branch_data,     \* get_details_of_all_branches_of_project: branch_data
  report_data,     \* main: report_data
  report,          \* what generate_html_report was handed, once it ran
  owned,           \* history: `owned` of the outermost activation, once
                   \* it has returned
  height,          \* history: `height` of the outermost activation, likewise
  pending,         \* history: subgroups listed and not yet expanded
  cyclic,          \* history: a group was expanded inside its own expansion
  listing_failed,  \* history: a bulk-listing call raised
  detail_ok,       \* history: per processed branch of the current project,
                   \* whether its detail calls succeeded
  enriched         \* history: the projects whose call of
                   \* get_details_of_all_branches_of_project has returned,
                   \* in the order of the calls

lookups == <<project_lookup, group_lookup>>
history == <<owned, height, pending, cyclic>>
enrich == <<proj_idx, branches, branch_idx, branch_data, report_data, detail_ok,
           enriched>>
locals == <<direct_projects, shared_projects>>
vars == <<pc, exit_status, message, project_lookup, group_lookup, stack,
          direct_projects, shared_projects, all_projects, proj_idx, branches,
          branch_idx, branch_data, report_data, report, owned, height, pending,
          cyclic, listing_failed, detail_ok, enriched>>

NoReport == [written |-> FALSE, data |-> <<>>]

Init ==
  /\ pc = "get_project"
  /\ exit_status = -1
  /\ message = <<>>
  /\ project_lookup = "none"
  /\ group_lookup = "none"
  /\ stack = <<>>
  /\ direct_projects = <<>>
  /\ shared_projects = <<>>
  /\ all_projects = <<>>
  /\ proj_idx = 0
  /\ branches = <<>>
  /\ branch_idx = 0
  /\ branch_data = <<>>
  /\ report_data = <<>>
  /\ report = NoReport
  /\ owned = {}
  /\ height = 0
  /\ pending = 0
  /\ cyclic = FALSE
  /\ listing_failed = FALSE
  /\ detail_ok = <<>>
  /\ enriched = <<>>

\* sys.exit(1) after printing an error line
SysExit(text, subject) ==
  /\ pc' = "exited"
  /\ exit_status' = 1
  /\ message' = <<text, subject>>

\* ------------------------------------------------ get_all_projects
\* main's `except gitlab.exceptions.GitlabError`: print, sys.exit(1)
MainHandler == SysExit("Error", "exception")

\* (variant) the project lookup's except clause catching every GitlabError
ProjectLookupRaisedCatchAll(exc) ==
  /\ project_lookup' = exc
  /\ pc' = "get_group"
  /\ UNCHANGED <<exit_status, message, group_lookup, stack, locals,
                 all_projects, enrich, report, history, listing_failed>>

\* The except clause of the project lookup: only GitlabGetError is caught
\* there (and leads to the group lookup); any other GitlabError propagates
\* to main's handler.
ProjectLookupRaised(exc) ==
  /\ project_lookup' = exc
  /\ IF exc = "GitlabGetError"
       THEN pc' = "get_group" /\ UNCHANGED <<exit_status, message>>
       ELSE MainHandler
  /\ UNCHANGED <<group_lookup, stack, locals, all_projects, enrich, report, history,
                 listing_failed>>

\* gl.projects.get(path) succeeded: return [project]; main starts its loop
ProjectFound(p) ==
  /\ project_lookup' = "ok"
  /\ all_projects' = <<p>>
  /\ proj_idx' = 1
  /\ pc' = "project_loop"
  /\ UNCHANGED <<exit_status, message, group_lookup, stack, locals, branches,
                 branch_idx, branch_data, report_data, detail_ok, enriched,
                 report,
                 history, listing_failed>>

GetProject ==
  /\ pc = "get_project"
  /\ \/ \E p \in Projects : ProjectFound(p)
     \/ \E exc \in {"GitlabGetError", "GitlabError"} : ProjectLookupRaised(exc)

\* a fresh activation of get_all_projects_of_group(gl, group)
NewFrame(g) == [group |-> g, projects |-> <<>>, subgroups |-> <<>>, next |-> 1,
                owned |-> {}, height |-> 0]

OnStack(g) == \E i \in 1..Len(stack) : stack[i].group = g

\* entering get_all_projects_of_group for group g
Expand(g) ==
  /\ stack' = Append(stack, NewFrame(g))
  /\ direct_projects' = <<>>
  /\ shared_projects' = <<>>
  /\ cyclic' = (cyclic \/ OnStack(g))
  /\ pc' = "list_projects"

\* The except clause of the group lookup: GitlabGetError prints the path
\* and exits; any other GitlabError propagates to main's handler.
GroupLookupRaised(exc) ==
  /\ group_lookup' = exc
  /\ IF exc = "GitlabGetError"
       THEN SysExit("Error while getting group", "path")
       ELSE MainHandler
  /\ UNCHANGED <<project_lookup, stack, locals, all_projects, enrich, report,
                 history, listing_failed>>

GetGroup ==
  /\ pc = "get_group"
  /\ \/ \E g \in Groups :
          /\ group_lookup' = "ok"
          /\ Expand(g)
          /\ UNCHANGED <<exit_status, message, project_lookup, all_projects,
                         enrich, report, owned, height, pending, listing_failed>>
     \/ \E exc \in {"GitlabGetError", "GitlabError"} : GroupLookupRaised(exc)

\* ---------------------------------------- get_all_projects_of_group
Top == stack[Len(stack)]
SetTop(f) == [stack EXCEPT ![Len(stack)] = f]

RECURSIVE SumFound(_)
SumFound(s) == IF s = <<>> THEN 0
               ELSE Len(s[1].projects) + SumFound(Tail(s))
\* projects accumulated so far by the live activations
TotalFound == SumFound(stack)

\* (variant) the listing's except clause ending the process with status 0
ListingErrorExitZero(text, subject) ==
  /\ pc' = "exited"
  /\ exit_status' = 0
  /\ message' = <<text, subject>>
  /\ listing_failed' = TRUE
  /\ UNCHANGED <<lookups, stack, locals, all_projects, enrich, report,
                 history>>

\* a bulk-listing call raised GitlabError: print and sys.exit(1)
ListingError(text, subject) ==
  /\ SysExit(text, subject)
  /\ listing_failed' = TRUE
  /\ UNCHANGED <<lookups, stack, locals, all_projects, enrich, report,
                 history>>

\* group.projects.list(all=True)
ListProjects ==
  /\ pc = "list_projects"
  /\ \/ \E lst \in ProjectLists :
          /\ Len(lst) <= MaxFound - TotalFound
          /\ direct_projects' = lst
          /\ pc' = "list_shared"
          /\ UNCHANGED <<exit_status, message, lookups, stack,
                         shared_projects, all_projects, enrich, report,
                         history, listing_failed>>
     \/ ListingError("Error getting projects of group", Top.group)

\* (variant) the loop appending every direct project
FilterNothing(direct, shared) == direct

\* `for project in direct_projects`: a project found in shared_projects is
\* skipped, any other is appended, in the listing's order
FilterShared(direct, shared) ==
  SelectSeq(direct, LAMBDA p : p \notin Range(shared))

\* group.shared_projects.list(all=True), then the loop over direct_projects
ListShared ==
  /\ pc = "list_shared"
  /\ \/ \E lst \in ProjectLists :
          /\ shared_projects' = lst
          /\ stack' = SetTop([Top EXCEPT
                 !.projects = FilterShared(direct_projects, lst),
                 !.owned = Range(direct_projects) \ Range(lst)])
          /\ pc' = "list_subgroups"
          /\ UNCHANGED <<exit_status, message, lookups, direct_projects,
                         all_projects, enrich, report, history,
                         listing_failed>>
     \/ ListingError("Error getting projects of group", Top.group)

\* group.subgroups.list(all=True); direct_projects and shared_projects are
\* not read again by this activation
ListSubgroups ==
  /\ pc = "list_subgroups"
  /\ \/ \E lst \in SubgroupLists :
          /\ Len(stack) = MaxDepth => lst = <<>>
          /\ stack' = SetTop([Top EXCEPT !.subgroups = lst])
          /\ direct_projects' = <<>>
          /\ shared_projects' = <<>>
          /\ pending' = pending + Len(lst)
          /\ pc' = "subgroup_loop"
          /\ UNCHANGED <<exit_status, message, lookups, all_projects, enrich,
                         report, owned, height, cyclic, listing_failed>>
     \/ ListingError("Error getting subgroups of group", Top.group)

\* `for subgroup in subgroups`: gl.groups.get(subgroup.id), then the
\* recursive call on the full subgroup
GetSubgroup ==
  /\ pc = "subgroup_loop"
  /\ Top.next <= Len(Top.subgroups)
  /\ \/ /\ Expand(Top.subgroups[Top.next])
        /\ pending' = pending - 1
        /\ UNCHANGED <<exit_status, message, lookups, all_projects, enrich,
                       report, owned, height, listing_failed>>
     \/ /\ SysExit("Error getting group", Top.subgroups[Top.next])
        /\ UNCHANGED <<lookups, stack, locals, all_projects, enrich, report,
                       history, listing_failed>>

\* (variant) the caller dropping the result of the recursive call
ExtendProjectsDropped(caller, result) ==
  [caller EXCEPT !.next = caller.next + 1]

\* projects.extend(<result of the recursive call>) in the caller
ExtendProjects(caller, result) ==
  [caller EXCEPT !.projects = caller.projects \o result,
                 !.next = caller.next + 1]

\* history of the caller, once a call it made has returned
NoteCallee(caller, callee) ==
  [caller EXCEPT !.owned = caller.owned \cup callee.owned,
                 !.height = IF callee.height + 1 > caller.height
                              THEN callee.height + 1 ELSE caller.height]

\* `return projects`: to the caller's loop, or to get_all_projects and main
ReturnGroup ==
  /\ pc = "subgroup_loop"
  /\ Top.next > Len(Top.subgroups)
  /\ \/ /\ Len(stack) > 1
        /\ stack' = [SubSeq(stack, 1, Len(stack) - 1) EXCEPT
                       ![Len(stack) - 1] =
                          NoteCallee(
                            ExtendProjects(stack[Len(stack) - 1], Top.projects),
                            Top)]
        /\ pc' = "subgroup_loop"
        /\ UNCHANGED <<exit_status, message, lookups, locals, all_projects,
                       enrich, report, history, listing_failed>>
     \/ /\ Len(stack) = 1
        /\ stack' = <<>>
        /\ all_projects' = Top.projects
        /\ proj_idx' = 1
        /\ pc' = "project_loop"
        /\ owned' = Top.owned
        /\ height' = Top.height
        /\ UNCHANGED <<exit_status, message, lookups, locals, branches,
                       branch_idx, branch_data, report_data, detail_ok,
                       enriched,
                       report, pending, cyclic, listing_failed>>

\* -------------------------------------------------- get_branch_details
\* parser.parse(commit['committed_date']): a timezone-aware datetime, kept
\* as its wall-clock hour and its UTC offset
Parse(commit) == [local |-> commit.local, offset |-> commit.offset]
\* the absolute instant (UTC hour) of an aware datetime
Instant(dt) == dt.local - dt.offset
\* dt.strftime('%Y-%m-%d %H:%M:%S'): the wall-clock fields, no offset
Strftime(dt) == dt.local
\* datetime.strptime(text, '%Y-%m-%d %H:%M:%S'): a naive datetime
Strptime(text) == text

\* (variant) merged_into set whatever the state
MergedIntoAnyState(mr) == mr.target_branch

\* `if mr.state == 'merged': merged_into = mr.target_branch`
MergedInto(mr) == IF mr.state = "merged" THEN mr.target_branch ELSE None

\* `mr = mrs[0]`: the first merge request listed
SelectMR(mrs) == mrs[1]

\* The dictionary get_branch_details returns when no call raises.
BranchDetails(commit, mrs) ==
  [last_commit_date |-> Parse(commit),
   merge_request    |-> IF mrs # <<>> THEN "link" ELSE None,
   mr_state         |-> IF mrs # <<>> THEN SelectMR(mrs).state ELSE None,
   merged_into      |-> IF mrs # <<>> THEN MergedInto(SelectMR(mrs)) ELSE None]

\* `x if x else ''` of the row construction
OrEmpty(x) == IF x = None THEN "" ELSE x

\* The row appended to branch_data (the columns the ordering and the
\* merge-request fields depend on; archived, committer, protected and the
\* links are copied through and left out).  `instant` and `first_target`
\* are not columns: they keep, for the properties, the commit's absolute
\* instant and the target branch of the first merge request listed.
Row(project, branch, details, mrs) ==
  [project       |-> project,
   branch        |-> branch,
   date          |-> Strftime(details.last_commit_date),
   merged_into   |-> OrEmpty(details.merged_into),
   merge_request |-> OrEmpty(details.merge_request),
   mr_state      |-> OrEmpty(details.mr_state),
   instant       |-> Instant(details.last_commit_date),
   first_target  |-> IF mrs # <<>> THEN mrs[1].target_branch ELSE ""]

\* ------------------------------ get_details_of_all_branches_of_project
\* the key of branch_data.sort
SortKey(row) == Strptime(row.date)

\* list.sort is stable: a row goes after every row whose key is not greater
RECURSIVE InsertRow(_, _)
InsertRow(sorted, row) ==
  IF sorted = <<>> THEN <<row>>
  ELSE IF SortKey(row) < SortKey(sorted[1])
         THEN <<row>> \o sorted
         ELSE <<sorted[1]>> \o InsertRow(Tail(sorted), row)

RECURSIVE SortRows(_)
SortRows(rows) ==
  IF rows = <<>> THEN <<>>
  ELSE InsertRow(SortRows(SubSeq(rows, 1, Len(rows) - 1)), rows[Len(rows)])

CurrentProject == all_projects[proj_idx]

\* main: proj = gl.projects.get(project.id); a GitlabError reaches main's
\* handler
GetFullProject ==
  /\ pc = "project_loop"
  /\ proj_idx <= Len(all_projects)
  /\ \/ /\ pc' = "list_branches"
        /\ UNCHANGED <<exit_status, message, lookups, stack, locals, all_projects,
                       enrich, report, history, listing_failed>>
     \/ /\ MainHandler
        /\ UNCHANGED <<lookups, stack, locals, all_projects, enrich, report, history,
                       listing_failed>>

\* project.branches.list(all=True)
ListBranches ==
  /\ pc = "list_branches"
  /\ \/ \E lst \in BranchLists :
          /\ Len(lst) <= MaxRecords - Len(report_data)
          /\ branches' = lst
          /\ branch_idx' = 1
          /\ branch_data' = <<>>
          /\ detail_ok' = <<>>
          /\ pc' = "branch_loop"
          /\ UNCHANGED <<exit_status, message, lookups, stack, locals, all_projects,
                         proj_idx, report_data, enriched, report, history,
                         listing_failed>>
     \/ ListingError("Error getting branches of project", CurrentProject)

\* (variant) a failed detail call ending the run
DetailErrorFatal ==
  /\ branch_idx' = branch_idx + 1
  /\ detail_ok' = Append(detail_ok, FALSE)
  /\ SysExit("Error getting branch details", "exception")
  /\ UNCHANGED branch_data

\* get_branch_details raised GitlabError (project.branches.get or
\* project.mergerequests.list): it prints, returns None, and the loop goes
\* on to the next branch without a row
DetailError ==
  /\ branch_idx' = branch_idx + 1
  /\ detail_ok' = Append(detail_ok, FALSE)
  /\ message' = <<"Error getting branch details", "exception">>
  /\ UNCHANGED <<pc, exit_status, branch_data>>

\* get_branch_details returned its dictionary: one row is appended
DetailOk(commit, mrs) ==
  /\ branch_data' = Append(branch_data,
        Row(CurrentProject, branches[branch_idx],
            BranchDetails(commit, mrs), mrs))
  /\ branch_idx' = branch_idx + 1
  /\ detail_ok' = Append(detail_ok, TRUE)
  /\ UNCHANGED <<pc, exit_status, message>>

\* one iteration of `for branch in branches`
ProcessBranch ==
  /\ pc = "branch_loop"
  /\ branch_idx <= Len(branches)
  /\ \/ \E commit \in Commits, mrs \in MRLists : DetailOk(commit, mrs)
     \/ DetailError
  /\ UNCHANGED <<lookups, stack, locals, all_projects, proj_idx, branches,
                 report_data, enriched, report, history, listing_failed>>

\* what main's report_data becomes when the function returns:
\* branch_data.sort(...); return branch_data; report_data.extend(...)
ExtendReport(data, rows) == data \o SortRows(rows)

FinishProject ==
  /\ pc = "branch_loop"
  /\ branch_idx > Len(branches)
  /\ report_data' = ExtendReport(report_data, branch_data)
  /\ enriched' = Append(enriched, CurrentProject)
  /\ proj_idx' = proj_idx + 1
  /\ branches' = <<>>
  /\ branch_idx' = 0
  /\ branch_data' = <<>>
  /\ detail_ok' = <<>>
  /\ pc' = "project_loop"
  /\ UNCHANGED <<exit_status, message, lookups, stack, locals, all_projects, report,
                 history, listing_failed>>

\* (variant) generate_html_report called inside `for project in
\* all_projects`, whatever the loop's position
GenerateReportInLoop ==
  /\ pc = "project_loop"
  /\ report' = [written |-> TRUE, data |-> report_data]
  /\ pc' = "done"
  /\ exit_status' = 0
  /\ UNCHANGED <<message, lookups, stack, locals, all_projects, enrich, history,
                 listing_failed>>

\* main: generate_html_report(report_data, args.path), then a normal exit
GenerateReport ==
  /\ pc = "project_loop"
  /\ proj_idx > Len(all_projects)
  /\ report' = [written |-> TRUE, data |-> report_data]
  /\ pc' = "done"
  /\ exit_status' = 0
  /\ UNCHANGED <<message, lookups, stack, locals, all_projects, enrich, history,
                 listing_failed>>

Next ==
  \/ GetProject
  \/ GetGroup
  \/ ListProjects
  \/ ListShared
  \/ ListSubgroups
  \/ GetSubgroup
  \/ ReturnGroup
  \/ GetFullProject
  \/ ListBranches
  \/ ProcessBranch
  \/ FinishProject
  \/ GenerateReport

Spec == Init /\ [][Next]_vars

\* ================================================================ claims
Rows == Range(branch_data) \cup Range(report_data) \cup Range(report.data)
SortedByInstant(rows) ==
  \A i, j \in 1..Len(rows) : i < j => rows[i].instant <= rows[j].instant
\* the UTC offset a row's commit carried
OffsetOf(row) == row.date - row.instant
NoDuplicates(s) == \A i, j \in 1..Len(s) : i # j => s[i] # s[j]
\* get_all_projects_of_group has returned to get_all_projects
Discovered == group_lookup = "ok" /\ stack = <<>>

\* C1: the list handed to the report renderer is sorted non-decreasing by
\* commit instant across all records of all projects.  Stated for the runs
\* whose commits all carry the same UTC offset, where the order of the
\* instants is the order of the rendered dates, so that only the ordering
\* across projects is at stake.
C1_ReportSortedAcrossProjects ==
  (report.written
     /\ \A r1, r2 \in Range(report.data) : OffsetOf(r1) = OffsetOf(r2))
  => SortedByInstant(report.data)

\* C2: the collection get_all_projects_of_group returns holds every project
\* at most once, and so no (project, branch) pair is twice in the report.
\* Stated for the runs in which no group was expanded inside its own
\* expansion (the subgroup listings are those of a tree or a DAG).
C2_ProjectsDeduplicated ==
  (Discovered /\ ~cyclic)
  => /\ NoDuplicates(all_projects)
     /\ \A i, j \in 1..Len(report.data) :
          i # j => <<report.data[i].project, report.data[i].branch>>
                   # <<report.data[j].project, report.data[j].branch>>

\* C3: a visit of a group G does not add to the result a project that is
\* both in G's direct-projects list and in G's shared-projects list (after
\* the loop over direct_projects, G's own projects hold no such project).
C3_SharedProjectSkipped ==
  pc = "list_subgroups"
  => \A p \in Range(direct_projects) \cap Range(shared_projects) :
       p \notin Range(Top.projects)

C3_Witness ==
  /\ pc = "list_subgroups"
  /\ Range(direct_projects) \cap Range(shared_projects) # {}
  /\ Top.projects # <<>>

\* C4: in every row, merged-into is non-empty exactly when the
\* merge-request state is "merged", and then it is the target branch of the
\* first merge request listed for the branch.
C4_MergedIntoIffMerged ==
  \A r \in Rows :
    /\ r.merged_into # "" <=> r.mr_state = "merged"
    /\ r.merged_into # "" => r.merged_into = r.first_target

C4_Witness ==
  /\ report.written
  /\ \E r1, r2 \in Range(report.data) :
       /\ r1.merged_into = "develop"
       /\ r2.mr_state = "closed" /\ r2.merged_into = ""

\* C5: get_all_projects resolves the path project first: a successful
\* project lookup yields exactly one project and no group lookup; the group
\* lookup is made only after the project lookup raised GitlabGetError (not
\* found); when both raise it the run exits with status 1, the path named
\* in the error, no project list and no report.
C5_ProjectFirstResolution ==
  /\ project_lookup = "ok"
       => /\ group_lookup = "none"
          /\ Len(all_projects) = 1
          /\ stack = <<>>
  /\ group_lookup # "none" => project_lookup = "GitlabGetError"
  /\ (project_lookup = "GitlabGetError" /\ group_lookup = "GitlabGetError")
       => /\ pc = "exited"
          /\ exit_status = 1
          /\ message = <<"Error while getting group", "path">>
          /\ all_projects = <<>>
          /\ ~report.written

C5_Witness ==
  /\ project_lookup = "GitlabGetError"
  /\ group_lookup = "GitlabGetError"
  /\ pc = "exited"

\* the branches of the current project processed so far whose detail calls
\* succeeded, in the listing's order
RECURSIVE OkBranches(_)
OkBranches(n) ==
  IF n = 0 THEN <<>>
  ELSE IF detail_ok[n] THEN Append(OkBranches(n - 1), branches[n])
       ELSE OkBranches(n - 1)

\* C6: a failure of one branch's detail calls is not fatal: the branch
\* contributes no row, the run goes on, and every processed branch of the
\* listing whose detail calls succeeded contributes exactly one row.
C6_DetailFailureSkipsBranch ==
  /\ pc = "branch_loop"
       => /\ Len(detail_ok) = branch_idx - 1
          /\ Len(branch_data) = Len(OkBranches(Len(detail_ok)))
          /\ \A i \in 1..Len(branch_data) :
               /\ branch_data[i].branch = OkBranches(Len(detail_ok))[i]
               /\ branch_data[i].project = CurrentProject
  /\ pc = "exited" => detail_ok = <<>>

C6_Witness ==
  /\ pc = "branch_loop"
  /\ detail_ok = <<FALSE, TRUE>>
  /\ Len(branch_data) = 1

\* C7: a failure of a bulk-listing call (direct projects, shared projects,
\* subgroups, branches) ends the run: status 1, no step after it, and no
\* report, not even of the projects already processed.
C7_ListingFailureFatal ==
  listing_failed
  => /\ pc = "exited"
     /\ exit_status = 1
     /\ ~report.written
     /\ ~ENABLED Next

C7_Witness ==
  /\ listing_failed
  /\ report_data # <<>>
  /\ pc = "exited"

\* C8: the order of a project's rows is that of the parsed, timezone-aware
\* commit instants: of two rows of one project, the one with the earlier
\* absolute instant comes first (stated for the runs over a single project).
C8_SortedByParsedInstant ==
  (report.written /\ Len(all_projects) = 1) => SortedByInstant(report.data)

\* C9: when get_all_projects_of_group returns, its projects are exactly the
\* projects that the group or a subgroup below it, at any depth, listed
\* direct and not shared; and every subgroup listed was expanded.
C9_DiscoveryClosed ==
  /\ (pc = "subgroup_loop" /\ Top.next > Len(Top.subgroups))
       => Range(Top.projects) = Top.owned
  /\ Discovered => (Range(all_projects) = owned /\ pending = 0)

C9_Witness ==
  /\ Discovered
  /\ height = 2
  /\ Len(all_projects) = 2
  /\ all_projects[1] # all_projects[2]

\* C10: no group is expanded more than once: visited group identities are
\* tracked, so a group is never expanded inside its own expansion.
C10_NoGroupExpandedTwice ==
  \A i, j \in 1..Len(stack) : i # j => stack[i].group # stack[j].group

\* C11: the report is generated at most once, and only after the path was
\* resolved, discovery has returned and every discovered project has been
\* enriched, in discovery order; a run that ends by a fatal error (path not
\* found, a listing failure, a failed re-fetch of a project by id, ...)
\* never generates the report, and no step runs before the resolution.
C11_ReportLastAndOnce ==
  /\ [](report.written
          => /\ pc = "done" /\ exit_status = 0
             /\ (project_lookup = "ok" \/ group_lookup = "ok")
             /\ stack = <<>>
             /\ enriched = all_projects
             /\ report.data = report_data)
  /\ [](pc = "exited" => (exit_status = 1 /\ ~report.written))
  /\ [](/\ Len(enriched) <= Len(all_projects)
        /\ enriched = SubSeq(all_projects, 1, Len(enriched))
        /\ enriched # <<>> => (project_lookup = "ok" \/ group_lookup = "ok"))
  /\ [][/\ report.written => report' = report
        /\ pc = "exited" => pc' = "exited"
        /\ (enriched' # enriched \/ report' # report) => stack = <<>>]_vars

C11_Witness ==
  /\ report.written
  /\ group_lookup = "ok"
  /\ all_projects = <<2, 1>>
  /\ enriched = <<2, 1>>
  /\ Len(report.data) = 2

====
